---- MODULE Spec2Model ----
(***************************************************************************)
(* A model of calico (src/calico/base.py, src/calico/parse.py) and of its  *)
(* predecessor pace (src/pace.py): scripts of expect/send actions run      *)
(* against a child process on a pseudo-terminal, test cases that wrap a    *)
(* script with an exit-status check, and suites that run cases in order    *)
(* and add up points.                                                      *)
(*                                                                         *)
(* The child process is the environment.  It is modelled as a timeline: a  *)
(* finite sequence of output tokens, each written some delay after the     *)
(* previous one, followed either by the child closing its output and       *)
(* exiting with a code, or by the child hanging forever.                   *)
(***************************************************************************)
EXTENDS Integers, Sequences, FiniteSets, TLC

VARIABLES
    prog,       \* which program runs: "calico" (base.py) or "pace" (pace.py)
    tc,         \* the TestCase being run (its script is mutated in place)
    tc0,        \* history: the TestCase as it was before the run
    args,       \* the arguments of TestCase.run: defs, g_timeout
    fr,         \* the frame of run_script: the session, the loop position, the results
    result,     \* what TestCase.run / run_test returned, once it has
    suite,      \* the Calico suite (pace: the parsed spec): ordered cases, total points
    sr,         \* the frame of Calico.run (pace: run_spec): order, position, report
    hist,       \* history: the add_case calls made, the cases executed so far
    ps,         \* parse_spec and str(): a document, its parse, its rendering
    mn,         \* the frame of main (pace.py): options, output, exit code
    rec         \* the recorder (Clioc): its position, the case being recorded, the suite

vars == <<prog, tc, tc0, args, fr, result, suite, sr, hist, ps, mn, rec>>

caseVars == <<tc, tc0, args, fr, result>>

suiteVars == <<suite, sr, hist>>

toolVars == <<ps, mn, rec>>

----------------------------------------------------------------------------
(* Bounds of the model *)

\* longest script drawn as an input
MaxScriptLen == 2
\* most output tokens a child writes
MaxOut == 1
\* most add_case calls made on a suite
MaxAdds == 2
\* most names selected for a run
MaxSel == 2
\* most tests in a document, most cases in a suite that is rendered
MaxTests == 2
\* most rounds the recorder is taken through
MaxRounds == 2
\* most chunks read, from the operator and from the child, in one recording
MaxChunks == 2

----------------------------------------------------------------------------
(* Values *)

\* Python's None, where an integer may stand (exit status, signal status, timeout)
None == -2

\* pexpect.EOF, the end-of-output sentinel (a class, never equal to a string)
EOF == "pexpect.EOF"

\* the default timeout of calico, imported at base.py line 35
GLOBAL_TIMEOUT == 3

\* the signal that ends a child still alive when the session is closed
SIGHUP == 1

Min(S) == CHOOSE x \in S : \A y \in S : x <= y

Max2(a, b) == IF a >= b THEN a ELSE b

\* Action.__init__: the string "_EOF_" is stored as pexpect.EOF
Action(type_, data, timeout) ==
    [type_ |-> type_,
     data |-> IF data # "_EOF_" THEN data ELSE EOF,
     timeout |-> timeout]

----------------------------------------------------------------------------
(* The child process *)

Delays == {0, 2}

ExitCodes == {0, 2}

Event == [tok : {"a", "b"}, d : Delays]

Outs == UNION {[1..n -> Event] : n \in 0..MaxOut}

\* a command that cannot be spawned: pexpect.spawn raises ExceptionPexpect
NoChild == [out |-> <<>>, end |-> "nospawn", ed |-> 0, code |-> 0]

Children ==
    [out : Outs, end : {"exit"}, ed : Delays, code : ExitCodes]
        \cup [out : Outs, end : {"hang"}, ed : {0}, code : {0}]
        \cup {NoChild}

RECURSIVE SumD(_, _)
SumD(out, k) == IF k = 0 THEN 0 ELSE out[k].d + SumD(out, k - 1)

\* the time at which the child writes its k-th token
EventTime(child, k) == SumD(child.out, k)

\* the time at which the child closes its output and exits (if it does)
EndTime(child) == SumD(child.out, Len(child.out)) + child.ed

Exited(child, now) == child.end = "exit" /\ EndTime(child) <= now

----------------------------------------------------------------------------
(* pexpect *)

\* spawn.expect(pattern, timeout): -1 stands for the spawn's own timeout
pexpect_timeout(spawn_timeout, timeout) ==
    IF timeout = -1 THEN spawn_timeout ELSE timeout

\* spawn.expect(pattern, timeout) at time now, cur tokens already consumed:
\* a match, an EOF exception, a TIMEOUT exception, or (no timeout) a wait
\* that never ends
expect(child, cur, now, pattern, timeout) ==
    LET bounded == timeout # None
        inTime(t) == (~bounded) \/ (t <= now + timeout)
        hits == {k \in (cur + 1)..Len(child.out) :
                    child.out[k].tok = pattern /\ inTime(EventTime(child, k))}
        closes == child.end = "exit" /\ inTime(EndTime(child))
    IN  IF pattern # EOF /\ hits # {}
        THEN [kind |-> "match", cur |-> Min(hits),
              now |-> Max2(now, EventTime(child, Min(hits)))]
        ELSE IF closes
        THEN [kind |-> IF pattern = EOF THEN "match" ELSE "eof",
              cur |-> Len(child.out),
              now |-> Max2(now, EndTime(child))]
        ELSE IF bounded
        THEN [kind |-> "timeout", cur |-> cur, now |-> now + timeout]
        ELSE [kind |-> "block", cur |-> Len(child.out), now |-> now]

\* spawn.close(force): the exit status of a child that has exited, or None
\* and the signal for a child that had to be killed
close(f, force) ==
    [f EXCEPT !.closed = IF force THEN "forced" ELSE "graceful",
              !.exitstatus = IF Exited(f.child, f.now) THEN f.child.code ELSE None,
              !.signalstatus = IF Exited(f.child, f.now) THEN None ELSE SIGHUP]

----------------------------------------------------------------------------
(* Variable substitution: action.data % defs *)

\* the data a script may hold: a literal, or a template naming the key v
Template == "%(v)s"

\* defs as passed to run_script: None, or a mapping
DefsNone == [kind |-> "None", items |-> {}]

DefsDict == [kind |-> "dict", items |-> {<<"v", "a">>}]

\* data % defs: the literal unchanged, the template replaced by the value of
\* its key, a KeyError when the key is not defined
Subst(data, defs) ==
    IF data # Template
    THEN [ok |-> TRUE, val |-> data]
    ELSE IF \E p \in defs.items : p[1] = "v"
    THEN [ok |-> TRUE, val |-> (CHOOSE p \in defs.items : p[1] = "v")[2]]
    ELSE [ok |-> FALSE, val |-> data]

----------------------------------------------------------------------------
(* run_script *)

\* base.py lines 104-106: whether an expect of end-of-output is appended
appends_eof(script) ==
    LET last == script[Len(script)]
    IN  (Len(script) = 0)
            \/ ((last.type_ # "expect") /\ (last.data # "_EOF_"))

\* the frame of a run_script call before its first line
NewFrame(child) ==
    [pc |-> "idle", command |-> "", script |-> <<>>, i |-> 0,
     child |-> child, cur |-> 0, now |-> 0,
     errors |-> <<>>, sent |-> <<>>, log |-> <<>>,
     closed |-> "none", exitstatus |-> None, signalstatus |-> None,
     defs |-> DefsNone, g_timeout |-> None, spawn_timeout |-> None,
     exc |-> "none"]

\* base.py lines 97-106: the defaults, the spawn, the implicit end-of-output
run_script_begin(f, command, script, defs, g_timeout) ==
    LET g == IF g_timeout # None THEN g_timeout ELSE GLOBAL_TIMEOUT
    IN  IF f.child.end = "nospawn"
        THEN [f EXCEPT !.pc = "raised", !.exc = "ExceptionPexpect",
                       !.command = command, !.script = script,
                       !.defs = IF defs.kind # "None" THEN defs
                                ELSE [kind |-> "dict", items |-> {}],
                       !.g_timeout = g]
        ELSE
        [f EXCEPT !.pc = "loop",
                  !.command = command,
                  !.defs = IF defs.kind # "None" THEN defs
                           ELSE [kind |-> "dict", items |-> {}],
                  !.g_timeout = g,
                  !.spawn_timeout = g,
                  !.closed = "open",
                  !.script = IF appends_eof(script)
                             THEN Append(script, Action("expect", "_EOF_", -1))
                             ELSE script,
                  !.i = 1]

\* what the loop body did with action i: kept for the properties
LogEntry(f, action, data, timeout, outcome) ==
    [i |-> f.i, type_ |-> action.type_, data |-> data,
     timeout |-> timeout, outcome |-> outcome]

\* a plausible slip: the handler of TIMEOUT records the error and goes on
\* with the next action (no close, no break)
run_script_expect_no_break(f, action, data) ==
    LET timeout == pexpect_timeout(f.spawn_timeout, action.timeout)
        r == expect(f.child, f.cur, f.now, data, timeout)
        g == [f EXCEPT !.cur = r.cur, !.now = r.now,
                       !.log = Append(@, LogEntry(f, action, data, timeout, r.kind))]
    IN  CASE r.kind = "match" -> [g EXCEPT !.i = @ + 1]
          [] r.kind = "eof" ->
                [close(g, TRUE) EXCEPT
                    !.errors = Append(@, "Expected output not received."),
                    !.pc = "returned"]
          [] r.kind = "timeout" ->
                [g EXCEPT !.errors = Append(@, "Timeout exceeded."), !.i = @ + 1]
          [] OTHER -> [g EXCEPT !.pc = "blocked"]

\* a plausible slip: the two handlers record each other's message
run_script_expect_swapped(f, action, data) ==
    LET timeout == pexpect_timeout(f.spawn_timeout, action.timeout)
        r == expect(f.child, f.cur, f.now, data, timeout)
        g == [f EXCEPT !.cur = r.cur, !.now = r.now,
                       !.log = Append(@, LogEntry(f, action, data, timeout, r.kind))]
    IN  CASE r.kind = "match" -> [g EXCEPT !.i = @ + 1]
          [] r.kind = "eof" ->
                [close(g, TRUE) EXCEPT
                    !.errors = Append(@, "Timeout exceeded."),
                    !.pc = "returned"]
          [] r.kind = "timeout" ->
                [close(g, TRUE) EXCEPT
                    !.errors = Append(@, "Expected output not received."),
                    !.pc = "returned"]
          [] OTHER -> [g EXCEPT !.pc = "blocked"]

\* base.py lines 111-143: an expect action whose data is already substituted
run_script_expect(f, action, data) ==
    LET timeout == pexpect_timeout(f.spawn_timeout, action.timeout)
        r == expect(f.child, f.cur, f.now, data, timeout)
        g == [f EXCEPT !.cur = r.cur, !.now = r.now,
                       !.log = Append(@, LogEntry(f, action, data, timeout, r.kind))]
    IN  CASE r.kind = "match" -> [g EXCEPT !.i = @ + 1]
          [] r.kind = "eof" ->
                [close(g, TRUE) EXCEPT
                    !.errors = Append(@, "Expected output not received."),
                    !.pc = "returned"]
          [] r.kind = "timeout" ->
                [close(g, TRUE) EXCEPT
                    !.errors = Append(@, "Timeout exceeded."),
                    !.pc = "returned"]
          [] OTHER -> [g EXCEPT !.pc = "blocked"]

\* base.py lines 144-146: a send action whose data is already substituted
run_script_send(f, action, data) ==
    [f EXCEPT !.sent = Append(@, data),
              !.log = Append(@, LogEntry(f, action, data, None, "sent")),
              !.i = @ + 1]

\* a plausible slip: the substitution is made in the send branch only
run_script_step_send_only(f) ==
    LET action == f.script[f.i]
        sub == IF action.data # EOF /\ action.type_ = "send"
               THEN Subst(action.data, f.defs)
               ELSE [ok |-> TRUE, val |-> action.data]
        g == [f EXCEPT !.script[f.i].data = sub.val]
    IN  IF ~sub.ok THEN [f EXCEPT !.pc = "raised", !.exc = "KeyError"]
        ELSE IF action.type_ = "expect" THEN run_script_expect(g, action, sub.val)
        ELSE run_script_send(g, action, sub.val)

\* base.py lines 108-146: one iteration of the loop over the script
run_script_step(f) ==
    LET action == f.script[f.i]
        sub == IF action.data # EOF THEN Subst(action.data, f.defs)
               ELSE [ok |-> TRUE, val |-> EOF]
        g == [f EXCEPT !.script[f.i].data = sub.val]
    IN  IF ~sub.ok THEN [f EXCEPT !.pc = "raised", !.exc = "KeyError"]
        ELSE IF action.type_ = "expect" THEN run_script_expect(g, action, sub.val)
        ELSE run_script_send(g, action, sub.val)

\* base.py lines 147-149: the loop ended without a break
run_script_else(f) == [close(f, TRUE) EXCEPT !.pc = "returned"]

----------------------------------------------------------------------------
(* pace.py: run_script *)

\* pace.py lines 93-95
pace_run_script_begin(f, command, script) ==
    IF f.child.end = "nospawn"
    THEN [f EXCEPT !.pc = "raised", !.exc = "ExceptionPexpect",
                   !.command = command, !.script = script]
    ELSE [f EXCEPT !.pc = "loop", !.command = command, !.closed = "open",
                   !.script = script, !.i = 1]

\* pace.py lines 97-110: the pattern and the timeout are read from the step
\* (no timeout annotation: None, an expect that waits without limit)
pace_run_script_expect(f, step) ==
    LET pattern == IF step.data = "EOF" THEN EOF ELSE step.data
        timeout == step.timeout
        r == expect(f.child, f.cur, f.now, pattern, timeout)
        g == [f EXCEPT !.cur = r.cur, !.now = r.now,
                       !.log = Append(@, LogEntry(f, step, pattern, timeout, r.kind))]
    IN  CASE r.kind = "match" -> [g EXCEPT !.i = @ + 1]
          [] r.kind \in {"eof", "timeout"} ->
                [close(g, TRUE) EXCEPT
                    !.errors = Append(@, "Expected output not received."),
                    !.pc = "returned"]
          [] OTHER -> [g EXCEPT !.pc = "blocked"]

\* pace.py lines 96-114: one iteration of the loop over the script
pace_run_script_step(f) ==
    LET step == f.script[f.i]
    IN  IF step.type_ = "expect" THEN pace_run_script_expect(f, step)
        ELSE run_script_send(f, step, step.data)

\* pace.py lines 115-117
pace_run_script_else(f) == [close(f, TRUE) EXCEPT !.pc = "returned"]

----------------------------------------------------------------------------
(* Either program's run_script, run to its end *)

Begin(p, f, command, script, defs, g_timeout) ==
    IF p = "calico" THEN run_script_begin(f, command, script, defs, g_timeout)
    ELSE pace_run_script_begin(f, command, script)

Step(p, f) == IF p = "calico" THEN run_script_step(f) ELSE pace_run_script_step(f)

Else(p, f) == IF p = "calico" THEN run_script_else(f) ELSE pace_run_script_else(f)

RECURSIVE RunFrom(_, _)
RunFrom(p, f) ==
    IF f.pc # "loop" THEN f
    ELSE IF f.i <= Len(f.script) THEN RunFrom(p, Step(p, f))
    ELSE Else(p, f)

\* run_script(command, script, defs, g_timeout) against a child: the frame
\* at its return (or where it raised, or where it waits forever)
run_script(p, command, script, defs, g_timeout, child) ==
    RunFrom(p, Begin(p, NewFrame(child), command, script, defs, g_timeout))

----------------------------------------------------------------------------
(* TestCase.run (base.py) and run_test (pace.py) *)

\* a plausible slip: the exit-status error replaces the errors of the script
TestCase_report_replaces(case, f) ==
    [state |-> "returned",
     errors |-> IF f.exitstatus # case.exits
                THEN <<"Incorrect exit status.">> ELSE f.errors]

\* a plausible slip: the exit-status error is put before the errors of the
\* script
TestCase_report_prepends(case, f) ==
    [state |-> "returned",
     errors |-> (IF f.exitstatus # case.exits
                 THEN <<"Incorrect exit status.">> ELSE <<>>) \o f.errors]

\* base.py lines 249-258, pace.py lines 148-159: the errors of the script,
\* then the exit-status check
TestCase_report(case, f) ==
    [state |-> "returned",
     errors |-> f.errors \o (IF f.exitstatus # case.exits
                             THEN <<"Incorrect exit status.">> ELSE <<>>)]

NoResult == [state |-> "none", errors |-> <<>>]

\* base.py line 242: the sandbox wrapper put before the command of a jailed
\* case (the working directory stands as /cwd)
jail_prefix(jailed) == IF jailed THEN "fakechroot chroot /cwd " ELSE ""

\* base.py lines 243-244: the command line TestCase.run builds and logs
TestCase_command(case, jailed) == jail_prefix(jailed) \o case.command

\* base.py lines 246-248: the command line TestCase.run passes to run_script
TestCase_spawned(case, jailed) == case.command

----------------------------------------------------------------------------
(* Inputs *)

\* the actions a calico script is drawn from
ScriptActions ==
    {Action("expect", "a", -1), Action("expect", "a", 1),
     Action("expect", "_EOF_", -1), Action("expect", "_EOF_", 1),
     Action("expect", Template, -1),
     Action("send", "a", -1), Action("send", Template, -1)}

Scripts == UNION {[1..n -> ScriptActions] : n \in 0..MaxScriptLen}

\* the steps a pace script is drawn from
PaceSteps ==
    {[type_ |-> "expect", data |-> "a", timeout |-> None],
     [type_ |-> "expect", data |-> "a", timeout |-> 1],
     [type_ |-> "expect", data |-> "EOF", timeout |-> None],
     [type_ |-> "expect", data |-> "EOF", timeout |-> 1],
     [type_ |-> "send", data |-> "a", timeout |-> None]}

PaceScripts == UNION {[1..n -> PaceSteps] : n \in 0..MaxScriptLen}

\* TestCase.__init__, as far as a run reads it
TestCase(name, command, script, timeout, exits, points, blocker, visible) ==
    [name |-> name, command |-> command, script |-> script, timeout |-> timeout,
     exits |-> exits, points |-> points, blocker |-> blocker, visible |-> visible]

CaseInputs ==
    {TestCase("A", "cmd", s, t, 0, None, FALSE, TRUE) : s \in Scripts, t \in {-1, 5}}

PaceInputs ==
    {TestCase("A", "cmd", s, -1, 0, None, FALSE, TRUE) : s \in PaceScripts}

ArgInputs ==
    [defs : {DefsNone, DefsDict}, g_timeout : {None, 4}, jailed : {FALSE}]
        \cup {[defs |-> DefsNone, g_timeout |-> None, jailed |-> TRUE]}

PaceArgInputs == {[defs |-> DefsNone, g_timeout |-> None, jailed |-> FALSE]}

----------------------------------------------------------------------------
(* OrderedDict, keyed by the name of its entries *)

od_has(od, k) == \E j \in 1..Len(od) : od[j].name = k

od_get(od, k) == od[CHOOSE j \in 1..Len(od) : od[j].name = k]

\* __setitem__: a known key keeps its place and takes the new value
od_set(od, e) ==
    IF od_has(od, e.name)
    THEN [j \in 1..Len(od) |-> IF od[j].name = e.name THEN e ELSE od[j]]
    ELSE Append(od, e)

od_keys(od) == [j \in 1..Len(od) |-> od[j].name]

RECURSIVE SelectSeq2(_, _)
SelectSeq2(q, keep) ==
    IF q = <<>> THEN <<>>
    ELSE (IF Head(q) \in keep THEN <<Head(q)>> ELSE <<>>) \o SelectSeq2(Tail(q), keep)

----------------------------------------------------------------------------
(* Calico (base.py) and the spec of pace.py *)

\* the names a case may have; n[0] == "_" holds of the second set
PlainNames == {"A", "B"}

MetaNames == {"_m"}

Names == PlainNames \cup MetaNames

starts_with_underscore(n) == n \in MetaNames

\* Calico.__init__ (base.py 264-275); pace.py line 48
NewSuite == [cases |-> <<>>, points |-> 0]

\* Calico.add_case (base.py 277-287); pace.py lines 69-73 and 82
add_case(s, case) ==
    [cases |-> od_set(s.cases, case),
     points |-> s.points + (IF case.points # None THEN case.points ELSE 0)]

\* a plausible slip: the default run does not leave out the names with "_"
test_names_unfiltered(p, s, tests) ==
    IF p = "calico" /\ tests.given THEN tests.names ELSE od_keys(s.cases)

\* base.py line 307: the names to run; pace.py line 180: every test
test_names(p, s, tests) ==
    IF p = "pace" THEN od_keys(s.cases)
    ELSE IF tests.given THEN tests.names
    ELSE SelectSeq2(od_keys(s.cases), {n \in Names : ~starts_with_underscore(n)})

\* a plausible slip: the declared points are awarded whether the case passed
\* or not
report_entry_unconditional(test, rep) ==
    IF test.points = None
    THEN [name |-> test.name, errors |-> rep.errors, scored |-> FALSE, points |-> 0]
    ELSE [name |-> test.name, errors |-> rep.errors, scored |-> TRUE,
          points |-> test.points]

\* base.py lines 322-327, pace.py lines 192-199: the entry of a case in the
\* report, with its points when the case declares points
report_entry(test, rep) ==
    LET passed == Len(rep.errors) = 0
    IN  IF test.points = None
        THEN [name |-> test.name, errors |-> rep.errors, scored |-> FALSE, points |-> 0]
        ELSE [name |-> test.name, errors |-> rep.errors, scored |-> TRUE,
              points |-> IF passed THEN test.points ELSE 0]

\* a plausible slip: the negation of "passed" is lost
blocks_when_passed(test, entry) == test.blocker /\ (Len(entry.errors) = 0)

\* base.py lines 332-333, pace.py lines 207-209
blocks(test, entry) == test.blocker /\ ~(Len(entry.errors) = 0)

\* the frame of Calico.run before its first line
NewRun ==
    [pc |-> "build", tests |-> [given |-> FALSE, names |-> <<>>],
     test_names |-> <<>>, pos |-> 0, report |-> <<>>,
     earned_points |-> 0, g_timeout |-> None, total_points |-> None,
     exc |-> "none"]

\* history: the names passed to add_case, in call order, and the cases run
NewHist == [added |-> <<>>, executed |-> <<>>]

\* parse_spec not called, nothing rendered
NoParse == [pc |-> "none"]

\* main not called
NoMain == [pc |-> "none"]

\* no recorder made
NoRec == [pc |-> "none"]

\* the scripts and the cases a suite is built from
SuiteScript(p) ==
    IF p = "calico" THEN <<Action("send", "a", -1)>>
    ELSE <<[type_ |-> "expect", data |-> "EOF", timeout |-> 1]>>

SuiteCases(p) ==
    {TestCase(n, "cmd", SuiteScript(p), -1, 0, pts, b, TRUE) :
        n \in Names, pts \in {None, 1, 2}, b \in BOOLEAN}

\* the children a case of a suite is run against: one that exits at once with
\* code 0 (the case passes), one that hangs (the case fails), and the command
\* that cannot be spawned
SuiteChildren ==
    {[out |-> <<>>, end |-> "exit", ed |-> 0, code |-> 0],
     [out |-> <<>>, end |-> "hang", ed |-> 0, code |-> 0],
     NoChild}

Selections ==
    {[given |-> FALSE, names |-> <<>>]}
        \cup {[given |-> TRUE, names |-> q] :
                q \in UNION {[1..n -> Names] : n \in 0..MaxSel}}

----------------------------------------------------------------------------
(* One test case run, step by step *)

InitCase ==
    /\ prog \in {"calico", "pace"}
    /\ tc \in (IF prog = "calico" THEN CaseInputs ELSE PaceInputs)
    /\ tc0 = tc
    /\ args \in (IF prog = "calico" THEN ArgInputs ELSE PaceArgInputs)
    /\ fr \in {NewFrame(child) : child \in Children}
    /\ result = NoResult
    /\ suite = NewSuite
    /\ sr = NewRun
    /\ hist = NewHist
    /\ ps = NoParse
    /\ mn = NoMain
    /\ rec = NoRec

\* TestCase.run calls run_script (base.py 240-248, 97-106); run_test calls
\* run_script (pace.py 127-146, 93-95)
CallRunScript ==
    /\ fr.pc = "idle"
    /\ fr' = Begin(prog, fr, TestCase_spawned(tc, args.jailed), tc.script,
                   args.defs, args.g_timeout)
    /\ tc' = [tc EXCEPT !.script = fr'.script]
    /\ UNCHANGED <<prog, tc0, args, result, suite, sr, hist, toolVars>>

\* the loop body on an expect action
ExpectStep ==
    /\ fr.pc = "loop"
    /\ fr.i <= Len(fr.script)
    /\ fr.script[fr.i].type_ = "expect"
    /\ fr' = Step(prog, fr)
    /\ tc' = [tc EXCEPT !.script = fr'.script]
    /\ UNCHANGED <<prog, tc0, args, result, suite, sr, hist, toolVars>>

\* the loop body on a send action
SendStep ==
    /\ fr.pc = "loop"
    /\ fr.i <= Len(fr.script)
    /\ fr.script[fr.i].type_ = "send"
    /\ fr' = Step(prog, fr)
    /\ tc' = [tc EXCEPT !.script = fr'.script]
    /\ UNCHANGED <<prog, tc0, args, result, suite, sr, hist, toolVars>>

\* the loop's else branch: every action was executed
LoopElse ==
    /\ fr.pc = "loop"
    /\ fr.i > Len(fr.script)
    /\ fr' = Else(prog, fr)
    /\ UNCHANGED <<prog, tc, tc0, args, result, suite, sr, hist, toolVars>>

\* run_script has returned: TestCase.run / run_test checks the exit status
\* and returns its report
ReturnReport ==
    /\ fr.pc = "returned"
    /\ result.state = "none"
    /\ result' = TestCase_report(tc, fr)
    /\ UNCHANGED <<prog, tc, tc0, args, fr, suite, sr, hist, toolVars>>

NextCase == CallRunScript \/ ExpectStep \/ SendStep \/ LoopElse \/ ReturnReport

SpecCase == InitCase /\ [][NextCase]_vars

----------------------------------------------------------------------------
(* A suite built and run, one case per step *)

InitSuite ==
    /\ prog \in {"calico", "pace"}
    /\ suite = NewSuite
    /\ sr = NewRun
    /\ hist = NewHist
    /\ ps = NoParse
    /\ mn = NoMain
    /\ rec = NoRec
    /\ tc = TestCase("A", "cmd", <<>>, -1, 0, None, FALSE, TRUE)
    /\ tc0 = tc
    /\ args = [defs |-> DefsNone, g_timeout |-> None, jailed |-> FALSE]
    /\ fr = NewFrame([out |-> <<>>, end |-> "hang", ed |-> 0, code |-> 0])
    /\ result = NoResult

\* Calico.add_case; pace: one test of the loop of parse_spec
AddCase ==
    /\ sr.pc = "build"
    /\ Len(hist.added) < MaxAdds
    /\ \E case \in SuiteCases(prog) :
        /\ suite' = add_case(suite, case)
        /\ hist' = [hist EXCEPT !.added = Append(@, case.name)]
    /\ UNCHANGED <<prog, sr, caseVars, toolVars>>

\* Calico.run is called (base.py 302-307); run_spec is called (pace.py 170-180)
StartRun ==
    /\ sr.pc = "build"
    /\ \E tests \in Selections, g \in {None} :
        /\ (prog = "pace") => ~tests.given
        /\ sr' = [sr EXCEPT !.pc = "loop",
                            !.tests = tests,
                            !.test_names = test_names(prog, suite, tests),
                            !.pos = 1,
                            !.g_timeout = g]
    /\ UNCHANGED <<prog, suite, hist, caseVars, toolVars>>

\* one iteration of the loop over the names (base.py 308-333, pace.py 180-209)
RunCase ==
    /\ sr.pc = "loop"
    /\ sr.pos <= Len(sr.test_names)
    /\ LET name == sr.test_names[sr.pos]
       IN  IF ~od_has(suite.cases, name)
           THEN \* self.get(name) is None: test.visible raises AttributeError
                /\ sr' = [sr EXCEPT !.pc = "raised", !.exc = "AttributeError"]
                /\ UNCHANGED <<suite, hist>>
           ELSE \E child \in SuiteChildren :
                LET test == od_get(suite.cases, name)
                IN  \E f \in {run_script(prog, test.command, test.script,
                                          DefsNone, sr.g_timeout, child)} :
                    \E entry \in {report_entry(test, TestCase_report(test, f))} :
                    /\ suite' = [suite EXCEPT
                            !.cases = od_set(@, [test EXCEPT !.script = f.script])]
                    /\ IF f.pc # "returned"
                       THEN /\ sr' = [sr EXCEPT !.pc = f.pc, !.exc = f.exc]
                            /\ UNCHANGED hist
                       ELSE /\ sr' = [sr EXCEPT
                                    !.report = od_set(@, entry),
                                    !.earned_points =
                                        IF entry.scored THEN @ + entry.points ELSE @,
                                    !.pos = IF blocks(test, entry) THEN @ ELSE @ + 1,
                                    !.pc = IF blocks(test, entry) THEN "break" ELSE @]
                            /\ hist' = [hist EXCEPT
                                    !.executed = Append(@, [pos |-> sr.pos, entry |-> entry,
                                                       blocker |-> test.blocker])]
    /\ UNCHANGED <<prog, caseVars, toolVars>>

\* after the loop (base.py 335-336, pace.py 211-218): the points are stored
\* and the report is returned
FinishRun ==
    /\ \/ sr.pc = "loop" /\ sr.pos > Len(sr.test_names)
       \/ sr.pc = "break"
    /\ sr' = [sr EXCEPT !.pc = "done",
                        !.total_points = IF prog = "pace" THEN suite.points ELSE None]
    /\ UNCHANGED <<prog, suite, hist, caseVars, toolVars>>

NextSuite == AddCase \/ StartRun \/ RunCase \/ FinishRun

SpecSuite == InitSuite /\ [][NextSuite]_vars

----------------------------------------------------------------------------
(* parse_spec (parse.py) and str() of a suite (base.py) *)

\* a YAML value as parse_spec tests it: absent (or null), an integer, a
\* boolean, a string
Absent == [t |-> "absent"]

YInt(n) == [t |-> "int", v |-> n]

YBool(b) == [t |-> "bool", v |-> b]

YStr(x) == [t |-> "str", v |-> x]

\* one action of a rendered or written script: its key, its data, and the
\* value of its "# timeout:" comment (-1: no comment)
YStep(key, data, timeout) == [key |-> key, data |-> data, timeout |-> timeout]

\* one test of a document: its name and the values of its settings
YTest(name, run, ret, timeout, points, blocker, visible, script) ==
    [name |-> name, run |-> run, ret |-> ret, timeout |-> timeout,
     points |-> points, blocker |-> blocker, visible |-> visible,
     script |-> script]

\* a document: nothing (empty content), or a sequence of tests
YDoc(tests) == [kind |-> IF tests = <<>> THEN "none" ELSE "seq", tests |-> tests]

\* parse.py line 71: the keys of an action
action_types(key) ==
    IF key \in {"e", "expect"} THEN "expect"
    ELSE IF key \in {"s", "send"} THEN "send"
    ELSE "unknown"

\* TestCase(test_name, command=run, **kwargs) as called at parse.py line 114:
\* __init__ (base.py 155-157) has no parameter named returns
TestCase_kwargs(test) ==
    IF test.ret.t = "int"
    THEN [kind |-> "TypeError"]
    ELSE [kind |-> "ok",
          case |-> TestCase(test.name, test.run.v, <<>>,
                            IF test.timeout.t = "int" THEN test.timeout.v ELSE -1,
                            0,
                            IF test.points.t = "int" THEN test.points.v ELSE None,
                            IF test.blocker.t = "bool" THEN test.blocker.v ELSE FALSE,
                            IF test.visible.t = "bool" THEN test.visible.v ELSE TRUE)]

\* parse.py lines 116-135: the script of a case
parse_script(test, case) ==
    IF test.script.t = "absent"
    THEN [kind |-> "ok",
          script |-> <<Action("expect", "_EOF_", case.timeout)>>]
    ELSE IF \E j \in 1..Len(test.script.v) :
                action_types(test.script.v[j].key) = "unknown"
    THEN [kind |-> "AssertionError"]
    ELSE [kind |-> "ok",
          script |-> [j \in 1..Len(test.script.v) |->
                        Action(action_types(test.script.v[j].key),
                               test.script.v[j].data,
                               test.script.v[j].timeout)]]

\* parse.py lines 76-135: one test of the document, its case and script
parse_test(test) ==
    IF test.run.t # "str" THEN [kind |-> "AssertionError"]
    ELSE IF test.ret.t \notin {"absent", "int"} THEN [kind |-> "AssertionError"]
    ELSE IF test.timeout.t \notin {"absent", "int"} THEN [kind |-> "AssertionError"]
    ELSE IF test.points.t \notin {"absent", "int"} THEN [kind |-> "AssertionError"]
    ELSE IF test.blocker.t \notin {"absent", "bool"} THEN [kind |-> "AssertionError"]
    ELSE IF test.visible.t \notin {"absent", "bool"} THEN [kind |-> "AssertionError"]
    ELSE LET made == TestCase_kwargs(test)
         IN  IF made.kind # "ok" THEN made
             ELSE LET sc == parse_script(test, made.case)
                  IN  IF sc.kind # "ok" THEN sc
                      ELSE [kind |-> "ok",
                            case |-> [made.case EXCEPT !.script = sc.script]]

\* parse.py lines 73-139: the loop over the tests; an exception ends it
RECURSIVE parse_tests(_, _)
parse_tests(tests, runner) ==
    IF tests = <<>> THEN [kind |-> "ok", suite |-> runner]
    ELSE LET r == parse_test(Head(tests))
         IN  IF r.kind # "ok" THEN [kind |-> r.kind, suite |-> NewSuite]
             ELSE parse_tests(Tail(tests), add_case(runner, r.case))

\* parse_spec(content): the suite, or the exception raised
parse_spec(doc) ==
    IF doc.kind # "seq" THEN [kind |-> "AssertionError", suite |-> NewSuite]
    ELSE parse_tests(doc.tests, NewSuite)

\* str() of a Python value inside an f-string, as YAML reads it back: an
\* integer as an integer, None as the string "None"
render_value(x) == IF x = None THEN YStr("None") ELSE YInt(x)

\* Action.__str__ (base.py 78-84)
render_action(action) ==
    YStep(action.type_,
          IF action.data # EOF THEN action.data ELSE "_EOF_",
          action.timeout)

\* TestCase.__str__ (base.py 210-224): name, run, script, return and points
\* are written; timeout, blocker and visible are not; a script without
\* actions is written as an empty value
render_case(case) ==
    YTest(case.name, YStr(case.command), render_value(case.exits), Absent,
          render_value(case.points), Absent, Absent,
          IF case.script = <<>> THEN Absent
          ELSE [t |-> "seq",
                v |-> [j \in 1..Len(case.script) |-> render_action(case.script[j])]])

\* Calico.__str__ (base.py 289-291)
render_suite(s) == YDoc([j \in 1..Len(s.cases) |-> render_case(s.cases[j])])

----------------------------------------------------------------------------
(* A document parsed, a suite rendered and parsed back *)

\* the steps and the tests a document is written from
YScripts ==
    {Absent,
     [t |-> "seq", v |-> <<YStep("expect", "a", 1)>>],
     [t |-> "seq", v |-> <<YStep("send", "a", -1), YStep("e", "_EOF_", -1)>>],
     [t |-> "seq", v |-> <<YStep("type", "a", -1)>>]}

YTests ==
    {YTest(n, run, ret, Absent, pts, Absent, Absent, sc) :
        n \in PlainNames, run \in {YStr("cmd"), Absent},
        ret \in {Absent, YInt(2), YStr("x")}, pts \in {Absent, YInt(1)},
        sc \in YScripts}

Docs == {YDoc(q) : q \in UNION {[1..n -> YTests] : n \in 0..MaxTests}}

\* the cases a suite is built from with add_case before it is rendered
RenderedCases ==
    {TestCase(n, "cmd", sc, -1, x, pts, b, v) :
        n \in PlainNames, sc \in {<<>>, <<Action("expect", "a", 1)>>},
        x \in {0, 2}, pts \in {None, 1}, b \in BOOLEAN, v \in BOOLEAN}

RECURSIVE add_cases(_, _)
add_cases(s, cases) ==
    IF cases = <<>> THEN s ELSE add_cases(add_case(s, Head(cases)), Tail(cases))

BuiltSuites ==
    {add_cases(NewSuite, q) : q \in UNION {[1..n -> RenderedCases] : n \in 0..MaxTests}}

NoOutcome == [kind |-> "none", suite |-> NewSuite]

InitParse ==
    /\ prog = "calico"
    /\ \/ \E doc \in Docs :
            ps = [pc |-> "doc", from |-> "doc", doc |-> doc, out |-> NoOutcome,
                  text |-> YDoc(<<>>), back |-> NoOutcome]
       \/ \E s \in BuiltSuites :
            ps = [pc |-> "suite", from |-> "built", doc |-> YDoc(<<>>),
                  out |-> [kind |-> "ok", suite |-> s],
                  text |-> YDoc(<<>>), back |-> NoOutcome]
    /\ mn = NoMain
    /\ rec = NoRec
    /\ suite = NewSuite
    /\ sr = NewRun
    /\ hist = NewHist
    /\ tc = TestCase("A", "cmd", <<>>, -1, 0, None, FALSE, TRUE)
    /\ tc0 = tc
    /\ args = [defs |-> DefsNone, g_timeout |-> None, jailed |-> FALSE]
    /\ fr = NewFrame([out |-> <<>>, end |-> "hang", ed |-> 0, code |-> 0])
    /\ result = NoResult

\* parse_spec(content) on the document
ParseSpec ==
    /\ ps.pc = "doc"
    /\ \E r \in {parse_spec(ps.doc)} :
            ps' = [ps EXCEPT !.out = r,
                             !.pc = IF r.kind = "ok" THEN "suite" ELSE "raised"]
    /\ UNCHANGED <<prog, caseVars, suiteVars, mn, rec>>

\* str(suite)
Render ==
    /\ ps.pc = "suite"
    /\ ps' = [ps EXCEPT !.text = render_suite(ps.out.suite), !.pc = "text"]
    /\ UNCHANGED <<prog, caseVars, suiteVars, mn, rec>>

\* parse_spec(str(suite))
Reparse ==
    /\ ps.pc = "text"
    /\ ps' = [ps EXCEPT !.back = parse_spec(ps.text), !.pc = "back"]
    /\ UNCHANGED <<prog, caseVars, suiteVars, mn, rec>>

NextParse == ParseSpec \/ Render \/ Reparse

SpecParse == InitParse /\ [][NextParse]_vars

----------------------------------------------------------------------------
(* main of pace.py: parse the specification, then validate only or run *)

\* the tests of a specification file: well-formed ones, and one that
\* parse_spec rejects (it has no run command)
PaceDocTests ==
    [valid : {TRUE}, case : SuiteCases("pace")]
        \cup {[valid |-> FALSE,
                case |-> TestCase("A", "", <<>>, -1, 0, None, FALSE, TRUE)]}

PaceDocs == UNION {[1..n -> PaceDocTests] : n \in 0..MaxAdds}

\* pace.py lines 40-82: ValueError for an empty specification or a test that
\* fails an assertion, else the tests by name and the total of their points
pace_parse_spec(doc) ==
    IF doc = <<>> \/ \E j \in 1..Len(doc) : ~doc[j].valid
    THEN [kind |-> "ValueError", suite |-> NewSuite]
    ELSE [kind |-> "ok",
          suite |-> add_cases(NewSuite, [j \in 1..Len(doc) |-> doc[j].case])]

\* the line main prints after run_spec
Grade(report_points, total_points) ==
    [line |-> "Grade", scored |-> report_points, over |-> total_points]

InitMain ==
    /\ prog = "pace"
    /\ mn \in [pc : {"start"}, validate : BOOLEAN, stdout : {<<>>},
                stderr : {<<>>}, code : {None}]
    /\ ps = NoParse
    /\ rec = NoRec
    /\ suite = NewSuite
    /\ sr = [NewRun EXCEPT !.pc = "idle"]
    /\ hist = NewHist
    /\ tc = TestCase("A", "cmd", <<>>, -1, 0, None, FALSE, TRUE)
    /\ tc0 = tc
    /\ args = [defs |-> DefsNone, g_timeout |-> None, jailed |-> FALSE]
    /\ fr = NewFrame([out |-> <<>>, end |-> "hang", ed |-> 0, code |-> 0])
    /\ result = NoResult

\* pace.py lines 280-289: the specification is read and parsed; an exception
\* is printed and ends main with exit code 1; --validate ends main here
MainParse ==
    /\ mn.pc = "start"
    /\ \E doc \in PaceDocs :
        \E r \in {pace_parse_spec(doc)} :
            IF r.kind # "ok"
            THEN /\ mn' = [mn EXCEPT !.pc = "exit", !.code = 1,
                                     !.stderr = Append(@, r.kind)]
                 /\ UNCHANGED <<suite, sr, hist>>
            ELSE /\ suite' = r.suite
                 /\ hist' = [hist EXCEPT
                        !.added = [j \in 1..Len(doc) |-> doc[j].case.name]]
                 /\ IF mn.validate
                    THEN /\ mn' = [mn EXCEPT !.pc = "exit", !.code = 0]
                         /\ UNCHANGED sr
                    ELSE /\ mn' = [mn EXCEPT !.pc = "running"]
                         /\ sr' = [sr EXCEPT !.pc = "build"]
    /\ UNCHANGED <<prog, caseVars, ps, rec>>

\* pace.py lines 290-295: run_spec has returned its report; the Grade line
\* is printed and main ends
MainGrade ==
    /\ mn.pc = "running"
    /\ sr.pc = "done"
    /\ mn' = [mn EXCEPT !.pc = "exit", !.code = 0,
                        !.stdout = Append(@, Grade(sr.earned_points, sr.total_points))]
    /\ UNCHANGED <<prog, caseVars, suiteVars, ps, rec>>

NextMain == MainParse \/ StartRun \/ RunCase \/ FinishRun \/ MainGrade

SpecMain == InitMain /\ [][NextMain]_vars

----------------------------------------------------------------------------
(* Clioc, the recorder (base.py 339-411).  Text is a sequence of characters *)
(* until it becomes the data of an action.                                   *)

Digits == <<"0", "1", "2", "3", "4", "5", "6", "7", "8", "9">>

\* str(n) of a natural number, as the f-string of the case name writes it
RECURSIVE str_int(_)
str_int(n) ==
    IF n < 10 THEN Digits[n + 1]
    ELSE str_int(n \div 10) \o Digits[(n % 10) + 1]

\* base.py line 374
case_name(case_num) == "case_" \o str_int(case_num)

\* the string made of the characters of q
RECURSIVE Str(_)
Str(q) == IF q = <<>> THEN "" ELSE Head(q) \o Str(Tail(q))

\* the characters re.escape puts a backslash before, among those drawn here
SpecialChars == {".", " ", "\n", "*", "\\"}

\* re.escape, character by character
escape(line) ==
    [j \in 1..Len(line) |->
        IF line[j] \in SpecialChars THEN "\\" \o line[j] ELSE line[j]]

\* .replace("\\ ", " ") on an escaped line
replace_escaped_spaces(pat) ==
    [j \in 1..Len(pat) |-> IF pat[j] = "\\ " THEN " " ELSE pat[j]]

\* str.splitlines(keepends=True); line holds the characters of the line begun
RECURSIVE splitlines(_, _)
splitlines(data, line) ==
    IF data = <<>> THEN (IF line = <<>> THEN <<>> ELSE <<line>>)
    ELSE IF Head(data) = "\n"
    THEN <<Append(line, "\n")>> \o splitlines(Tail(data), <<>>)
    ELSE splitlines(Tail(data), Append(line, Head(data)))

\* data[:-1]
all_but_last(data) == SubSeq(data, 1, Len(data) - 1)

\* base.py lines 401-410: the actions the handler appends for a chunk read
\* from fd (0: the operator's input; else the child's output)
handler_actions(fd, data) ==
    IF fd = 0
    THEN <<Action("send", Str(all_but_last(data)), -1)>>
    ELSE LET lines == splitlines(data, <<>>)
         IN  [j \in 1..Len(lines) |->
                Action("expect", Str(replace_escaped_spaces(escape(lines[j]))), -1)]

\* base.py line 411: what the handler returns to be forwarded
handler_forwards(fd, data) == data

\* a plausible slip: the status of waitpid is taken as the exit code
exit_code_unshifted(status) == status

\* base.py line 399: os.waitpid(pid, 0)[1] >> 8
exit_code(status) == status \div 256

\* the status waitpid reports: the exit code in the high byte, or the number
\* of the signal that ended the child in the low byte
wait_status(end) == IF end.kind = "exit" THEN end.code * 256 ELSE end.sig

\* int(input(...)) for the texts drawn here: one digit, or not a number
int_input(text) ==
    IF \E d \in 1..Len(Digits) : Digits[d] = text
    THEN [ok |-> TRUE, val |-> (CHOOSE d \in 1..Len(Digits) : Digits[d] = text) - 1]
    ELSE [ok |-> FALSE, val |-> 0]

\* str.lower for the answers drawn here
lower(text) == IF text = "Y" THEN "y" ELSE text

\* a plausible slip: an answer that declines is taken as one that continues
continues_always(answer) == lower(answer) \in {"y", "", "n"}

\* base.py line 368: the answer does not end the loop
continues(answer) == lower(answer) \in {"y", ""}

\* the chunks read from the operator and from the child, the ways the child
\* ends, what the operator types for the points and for the question
StdinChunks == {<<"a", "\n">>, <<"a">>}

ChildChunks == {<<"a", ".", "b">>, <<"a", " ", "\n", "b", "\n">>}

ChildEnds ==
    {[kind |-> "exit", code |-> 0, sig |-> 0],
     [kind |-> "exit", code |-> 2, sig |-> 0],
     [kind |-> "signal", code |-> 0, sig |-> 9]}

PointInputs == {"1", "2", "x"}

Answers == {"y", "Y", "", "n"}

\* the question has not been answered since the round began
NoAnswer == "(none)"

\* no case is being recorded
NoCase == TestCase("", "", <<>>, None, 0, None, FALSE, TRUE)

\* Clioc.__init__ (342-351) and the first lines of __create_test_suite (363-364)
NewRec ==
    [pc |-> "idle", case_number |-> 1, current_test_case |-> NoCase,
     calico |-> NewSuite, exit_code |-> None, chunks |-> 0,
     trace |-> <<"idle">>, made |-> <<>>, rounds |-> <<>>,
     answer |-> NoAnswer, asked |-> 0,
     pending |-> [recorded |-> <<>>, end |-> [kind |-> "none", code |-> 0, sig |-> 0]]]

InitRec ==
    /\ prog = "calico"
    /\ rec = NewRec
    /\ ps = NoParse
    /\ mn = NoMain
    /\ suite = NewSuite
    /\ sr = NewRun
    /\ hist = NewHist
    /\ tc = TestCase("A", "cmd", <<>>, -1, 0, None, FALSE, TRUE)
    /\ tc0 = tc
    /\ args = [defs |-> DefsNone, g_timeout |-> None, jailed |-> FALSE]
    /\ fr = NewFrame([out |-> <<>>, end |-> "hang", ed |-> 0, code |-> 0])
    /\ result = NoResult

\* base.py lines 365-367, 374-377: a round begins: the case is created and
\* the reference program is started
RecStart ==
    /\ rec.pc = "idle"
    /\ rec.case_number <= MaxRounds
    /\ rec' = [rec EXCEPT
            !.pc = "recording",
            !.trace = Append(@, "recording"),
            !.case_number = @ + 1,
            !.answer = NoAnswer,
            !.current_test_case =
                TestCase(case_name(rec.case_number), "cmd", <<>>, None, 0, None,
                         FALSE, TRUE)]
    /\ UNCHANGED <<prog, caseVars, suiteVars, ps, mn>>

\* base.py lines 401-411 with fd = 0: a chunk of the operator's input
RecStdin ==
    /\ rec.pc = "recording"
    /\ rec.chunks < MaxChunks
    /\ \E data \in StdinChunks :
        rec' = [rec EXCEPT
            !.chunks = @ + 1,
            !.current_test_case.script = @ \o handler_actions(0, data),
            !.made = Append(@, [round |-> Len(rec.rounds) + 1, fd |-> 0,
                                data |-> data,
                                added |-> handler_actions(0, data),
                                forwarded |-> handler_forwards(0, data)])]
    /\ UNCHANGED <<prog, caseVars, suiteVars, ps, mn>>

\* base.py lines 401-411 with fd = master_fd: a chunk of the child's output
RecChild ==
    /\ rec.pc = "recording"
    /\ rec.chunks < MaxChunks
    /\ \E data \in ChildChunks :
        rec' = [rec EXCEPT
            !.chunks = @ + 1,
            !.current_test_case.script = @ \o handler_actions(1, data),
            !.made = Append(@, [round |-> Len(rec.rounds) + 1, fd |-> 1,
                                data |-> data,
                                added |-> handler_actions(1, data),
                                forwarded |-> handler_forwards(1, data)])]
    /\ UNCHANGED <<prog, caseVars, suiteVars, ps, mn>>

\* base.py lines 394-399, 378: the child has ended: the copy loop ends,
\* the exit code is taken and the expect of end-of-output is appended
RecChildExit ==
    /\ rec.pc = "recording"
    /\ \E end \in ChildEnds :
        rec' = [rec EXCEPT
            !.pc = "score",
            !.trace = Append(@, "score"),
            !.exit_code = exit_code(wait_status(end)),
            !.pending = [recorded |-> rec.current_test_case.script, end |-> end],
            !.current_test_case.script = Append(@, Action("expect", "_EOF_", -1))]
    /\ UNCHANGED <<prog, caseVars, suiteVars, ps, mn>>

\* base.py lines 380-383, 367: the operator types the points; the case gets
\* its points and its exit status and is added to the suite
RecPoints ==
    /\ rec.pc = "score"
    /\ \E text \in PointInputs :
        LET points == int_input(text)
            case == [rec.current_test_case EXCEPT !.points = points.val,
                                                  !.exits = rec.exit_code]
        IN  IF ~points.ok
            THEN rec' = [rec EXCEPT !.pc = "raised", !.trace = Append(@, "raised")]
            ELSE rec' = [rec EXCEPT
                    !.pc = "ask",
                    !.trace = Append(@, "ask"),
                    !.current_test_case = case,
                    !.calico = add_case(@, case),
                    !.rounds = Append(@, [recorded |-> rec.pending.recorded,
                                          end |-> rec.pending.end,
                                          points |-> text])]
    /\ UNCHANGED <<prog, caseVars, suiteVars, ps, mn>>

\* base.py lines 368-371: the operator answers the question
RecAnswer ==
    /\ rec.pc = "ask"
    /\ \E answer \in Answers :
        rec' = [rec EXCEPT
            !.pc = IF continues(answer) THEN "idle" ELSE "done",
            !.trace = Append(@, IF continues(answer) THEN "idle" ELSE "done"),
            !.answer = answer,
            !.asked = @ + 1]
    /\ UNCHANGED <<prog, caseVars, suiteVars, ps, mn>>

NextRec == RecStart \/ RecStdin \/ RecChild \/ RecChildExit \/ RecPoints \/ RecAnswer

SpecRec == InitRec /\ [][NextRec]_vars

----------------------------------------------------------------------------
(* Properties of Calico.run and run_spec *)

RECURSIVE SumSeq(_)
SumSeq(q) == IF q = <<>> THEN 0 ELSE Head(q) + SumSeq(Tail(q))

\* the points a report entry awards (none when it has no points field)
Awarded(entry) == IF entry.scored THEN entry.points ELSE 0

\* the points a case declares, absent points counted as 0
Declared(case) == IF case.points = None THEN 0 ELSE case.points

\* a case run at step k of the history was a blocker and failed
BlockerFailedAt(k) ==
    hist.executed[k].blocker /\ Len(hist.executed[k].entry.errors) > 0

\* a sequence without the repetitions of its elements (the first is kept)
RECURSIVE FirstOccurrences(_, _)
FirstOccurrences(q, seen) ==
    IF q = <<>> THEN <<>>
    ELSE IF Head(q) \in seen THEN FirstOccurrences(Tail(q), seen)
    ELSE <<Head(q)>> \o FirstOccurrences(Tail(q), seen \cup {Head(q)})

\* C1: once a case with blocker=true has finished with a non-empty error
\* list, it is the last case run: the loop is left, the case has an entry
\* with its errors in the report, and no name that comes only later in the
\* order has an entry in the report.
C1_BlockerStopsRun ==
    \A k \in 1..Len(hist.executed) :
        BlockerFailedAt(k) =>
            LET e == hist.executed[k]
            IN  /\ k = Len(hist.executed)
                /\ sr.pc \in {"break", "done"}
                /\ od_has(sr.report, e.entry.name)
                /\ od_get(sr.report, e.entry.name).errors = e.entry.errors
                /\ \A j \in (e.pos + 1)..Len(sr.test_names) :
                        od_has(sr.report, sr.test_names[j]) =>
                            \E i \in 1..e.pos : sr.test_names[i] = sr.test_names[j]

\* C1 witness: a run has returned after a failed blocker, and a case of the
\* suite that comes later in the order was not run and is not in the report
C1_Witness ==
    /\ sr.pc = "done"
    /\ Len(hist.executed) = 1
    /\ BlockerFailedAt(1)
    /\ Len(sr.test_names) = 2
    /\ od_has(suite.cases, sr.test_names[2])
    /\ ~od_has(sr.report, sr.test_names[2])

\* C2: every case run has, when it declares points, an entry whose points
\* are the declared points if its error list is empty and 0 otherwise, and
\* an entry without points when it declares none; every entry of the report
\* is the entry of the last run of its case; the earned points are the sum
\* of the points awarded to the cases run.
C2_PointsAwarded ==
    /\ \A k \in 1..Len(hist.executed) :
        LET e == hist.executed[k].entry
            test == od_get(suite.cases, e.name)
        IN  /\ (test.points # None) =>
                    /\ e.scored
                    /\ e.points = IF Len(e.errors) = 0 THEN test.points ELSE 0
            /\ (test.points = None) => ~e.scored
    /\ \A j \in 1..Len(sr.report) :
        \E k \in 1..Len(hist.executed) :
            /\ hist.executed[k].entry = sr.report[j]
            /\ \A m \in (k + 1)..Len(hist.executed) :
                    hist.executed[m].entry.name # sr.report[j].name
    /\ sr.earned_points =
            SumSeq([k \in 1..Len(hist.executed) |-> Awarded(hist.executed[k].entry)])

\* C2 witness: a run has returned in which one case with points passed and
\* another case with points failed
C2_Witness ==
    /\ sr.pc = "done"
    /\ Len(hist.executed) = 2
    /\ hist.executed[1].entry.scored /\ hist.executed[1].entry.points = 2
    /\ hist.executed[2].entry.scored /\ Len(hist.executed[2].entry.errors) > 0
    /\ sr.earned_points = 2

\* C3: the total points of the suite are the sum of the declared points of
\* the cases the suite holds.
C3_TotalIsSumOfCases ==
    suite.points = SumSeq([j \in 1..Len(suite.cases) |-> Declared(suite.cases[j])])

\* C4: after a default run (no names selected) in which no case failed, the
\* earned points are the total points of the suite.
C4_FullRunEarnsTotal ==
    ( /\ sr.pc = "done"
      /\ ~sr.tests.given
      /\ \A k \in 1..Len(hist.executed) : Len(hist.executed[k].entry.errors) = 0 )
        => sr.earned_points = suite.points

\* C5: Calico.run runs the selected names in the given order, or, when none
\* are given, the names without a leading "_" in the order of their first
\* add_case; the cases run are a prefix of that order, all of it when the run
\* returns without a failed blocker; a default run runs no name with "_".
C5_ExecutionOrder ==
    (prog = "calico" /\ sr.pc # "build") =>
        /\ sr.test_names =
                IF sr.tests.given THEN sr.tests.names
                ELSE SelectSeq2(FirstOccurrences(hist.added, {}), Names \ MetaNames)
        /\ \A k \in 1..Len(hist.executed) :
                /\ hist.executed[k].pos = k
                /\ hist.executed[k].entry.name = sr.test_names[k]
        /\ (sr.pc = "done" /\ \A k \in 1..Len(hist.executed) : ~BlockerFailedAt(k))
                => Len(hist.executed) = Len(sr.test_names)
        /\ (~sr.tests.given) =>
                \A k \in 1..Len(hist.executed) :
                    hist.executed[k].entry.name \notin MetaNames

\* C5 witness: a default run of a suite that holds a "_" case and a plain
\* case has returned, having run the plain case only
C5_Witness ==
    /\ prog = "calico"
    /\ sr.pc = "done"
    /\ ~sr.tests.given
    /\ hist.added = <<"_m", "A">>
    /\ Len(hist.executed) = 1
    /\ hist.executed[1].entry.name = "A"

----------------------------------------------------------------------------
(* Properties of run_script and TestCase.run *)

\* the script ends with an expect of end-of-output
EndsWithExpectEOF(script) ==
    /\ Len(script) > 0
    /\ script[Len(script)].type_ = "expect"
    /\ script[Len(script)].data = EOF

\* the expect of end-of-output, as run_script appends it
ExpectEOF == Action("expect", "_EOF_", -1)

\* the data of the send entries of a log, in order
RECURSIVE SentOf(_)
SentOf(log) ==
    IF log = <<>> THEN <<>>
    ELSE (IF Head(log).type_ = "send" THEN <<Head(log).data>> ELSE <<>>)
            \o SentOf(Tail(log))

\* the expect logged at k ended in TIMEOUT or in an unexpected end of stream
FailedAt(k) == fr.log[k].outcome \in {"timeout", "eof"}

\* C6: once calico's run_script has begun, the script it executes is the
\* given script when that ends with an expect of end-of-output, and the
\* given script with one expect of end-of-output appended otherwise.
C6_ImplicitEOFAppended ==
    (prog = "calico" /\ fr.pc # "idle") =>
        IF EndsWithExpectEOF(tc0.script)
        THEN Len(fr.script) = Len(tc0.script)
        ELSE /\ Len(fr.script) = Len(tc0.script) + 1
             /\ fr.script[Len(fr.script)] = ExpectEOF

\* C7: when calico's run_script has returned for a script that does not end
\* with an expect of end-of-output, run_script on the same script with an
\* explicit trailing expect of end-of-output, against the same child, returns
\* the same exit status, signal status and errors.
C7_ImplicitEqualsExplicit ==
    (prog = "calico" /\ fr.pc = "returned" /\ ~EndsWithExpectEOF(tc0.script)) =>
        LET g == run_script("calico", tc0.command, Append(tc0.script, ExpectEOF),
                            args.defs, args.g_timeout, fr.child)
        IN  /\ g.pc = "returned"
            /\ g.exitstatus = fr.exitstatus
            /\ g.signalstatus = fr.signalstatus
            /\ g.errors = fr.errors

\* C8: the actions executed are the first actions of the script, each once
\* and in script order, and what was sent is the data of the sends among
\* them; an expect that ended in TIMEOUT or in an unexpected end of stream is
\* the last action executed: run_script has returned and the session was
\* closed by force.
C8_InOrderThenAbort ==
    /\ Len(fr.log) <= Len(fr.script)
    /\ \A k \in 1..Len(fr.log) :
        /\ fr.log[k].i = k
        /\ fr.log[k].type_ = fr.script[k].type_
    /\ fr.sent = SentOf(fr.log)
    /\ \A k \in 1..Len(fr.log) :
        FailedAt(k) =>
            /\ k = Len(fr.log)
            /\ fr.pc = "returned"
            /\ fr.closed = "forced"

\* C8 witness: run_script has returned after an expect ended in TIMEOUT, and
\* the send that follows it in the script was never written
C8_Witness ==
    /\ fr.pc = "returned"
    /\ Len(fr.log) = 1
    /\ fr.log[1].outcome = "timeout"
    /\ Len(fr.script) > 1
    /\ fr.script[2].type_ = "send"
    /\ fr.sent = <<>>

C10_TimeoutFallback ==
    (prog = "calico") =>
        \A k \in 1..Len(fr.log) :
            (fr.log[k].type_ = "expect") =>
                fr.log[k].timeout =
                    IF fr.script[k].timeout # -1 THEN fr.script[k].timeout
                    ELSE IF tc0.timeout # -1 THEN tc0.timeout
                    ELSE IF args.g_timeout # None THEN args.g_timeout
                    ELSE GLOBAL_TIMEOUT

----------------------------------------------------------------------------
(* Properties of TestCase.run *)

\* C11: once TestCase.run has returned, its error list is the error list of
\* run_script followed by "Incorrect exit status." exactly when the exit
\* status of run_script (None for a killed child) differs from the expected
\* exit status of the case, and by nothing otherwise; a case with points is
\* awarded them by the suite iff that error list is empty.
C11_ExitStatusError ==
    (result.state = "returned") =>
        /\ result.errors =
                IF fr.exitstatus # tc.exits
                THEN Append(fr.errors, "Incorrect exit status.")
                ELSE fr.errors
        /\ \A k \in 1..Len(fr.errors) : fr.errors[k] # "Incorrect exit status."
        /\ (report_entry([tc EXCEPT !.points = 1], result).points = 1)
                <=> (result.errors = <<>>)

\* C11 witness: TestCase.run has returned for a child that was killed after a
\* timeout: the exit status is absent and the exit-status error follows the
\* error of the script
C11_Witness ==
    /\ result.state = "returned"
    /\ fr.exitstatus = None
    /\ result.errors = <<"Timeout exceeded.", "Incorrect exit status.">>

----------------------------------------------------------------------------
(* Properties of the failure paths *)

\* C12: a command that cannot be spawned does not end the run of the suite:
\* Calico.run / run_spec never stops with the error of the spawn raised out
\* of it.
C12_SpawnFailureConfined ==
    ~(sr.pc = "raised" /\ sr.exc = "ExceptionPexpect")

----------------------------------------------------------------------------
(* Properties of parse_spec and str() *)

\* the parts of a case that a rendering is to keep
Kept(case) ==
    [name |-> case.name, points |-> case.points, blocker |-> case.blocker,
     visible |-> case.visible, script |-> case.script]

\* C13: parsing the rendering of a suite yields a suite with the same case
\* names in the same order, the same points, the same blocker and visible
\* flags and the same actions.
C13_RoundTrip ==
    (ps.pc = "back") =>
        /\ ps.back.kind = "ok"
        /\ Len(ps.back.suite.cases) = Len(ps.out.suite.cases)
        /\ \A j \in 1..Len(ps.out.suite.cases) :
                Kept(ps.back.suite.cases[j]) = Kept(ps.out.suite.cases[j])

\* C14: no Expect of run_script waits without a deadline on a child that
\* never writes what is expected and never exits: run_script is never left
\* waiting forever.
C14_NoUnboundedWait ==
    fr.pc # "blocked"

----------------------------------------------------------------------------
(* Properties of main (pace.py) *)

\* main has ended: it returned or exited, or an exception left run_spec and
\* main with it
MainEnded == mn.pc = "exit" \/ (mn.pc = "running" /\ sr.pc = "raised")

\* a Grade line is among the lines printed
GradePrinted == \E k \in 1..Len(mn.stdout) : mn.stdout[k].line = "Grade"

\* C15: a specification that fails to parse ends main with exit code 1, no
\* case run and no Grade line; a validate-only invocation prints no Grade
\* line; an invocation that runs the suite has, when main ends, printed the
\* Grade line with the earned and the total points as its last line, all
\* cases having run.
C15_MainOutcome ==
    /\ (mn.code = 1 /\ Len(mn.stderr) > 0) =>
            (hist.executed = <<>> /\ ~GradePrinted)
    /\ mn.validate => (~GradePrinted /\ hist.executed = <<>>)
    /\ GradePrinted =>
            /\ sr.pc = "done"
            /\ mn.stdout[Len(mn.stdout)] = Grade(sr.earned_points, suite.points)
    /\ (MainEnded /\ sr.pc # "idle") => GradePrinted

----------------------------------------------------------------------------
(* Properties of the session of run_script *)

\* control has left run_script: it returned, or an exception left it
Left(f) == f.pc \in {"returned", "raised"}

\* run_script spawned a session
Spawned(f) == f.closed # "none"

\* C16: whenever control has left run_script, by return or by exception,
\* the session it spawned has been closed.
C16_SessionClosedOnExit ==
    (Left(fr) /\ Spawned(fr)) => fr.closed \in {"forced", "graceful"}

\* C17: when calico's run_script has returned after executing every action of the
\* script, no expect having ended in TIMEOUT or in an unexpected end of
\* stream, the session was closed without force; a session closed by force
\* is one whose script failed.
C17_GracefulOnCompletion ==
    (prog = "calico" /\ fr.pc = "returned") =>
        IF \A k \in 1..Len(fr.log) : ~FailedAt(k)
        THEN fr.closed = "graceful"
        ELSE fr.closed = "forced"

\* C18: the command line calico's TestCase.run has spawned is the command of
\* the case with the sandbox wrapper before it when the run is jailed, and
\* the command of the case unchanged when it is not.
C18_SandboxedCommand ==
    (prog = "calico" /\ Spawned(fr)) =>
        fr.command = IF args.jailed
                     THEN "fakechroot chroot /cwd " \o tc0.command
                     ELSE tc0.command

----------------------------------------------------------------------------
(* Properties of parse_spec *)

\* a test that meets what parse_spec asserts of its settings and its script
ValidTest(test) ==
    /\ test.run.t = "str"
    /\ test.ret.t \in {"absent", "int"}
    /\ test.timeout.t \in {"absent", "int"}
    /\ test.points.t \in {"absent", "int"}
    /\ test.blocker.t \in {"absent", "bool"}
    /\ test.visible.t \in {"absent", "bool"}
    /\ (test.script.t # "absent") =>
            \A j \in 1..Len(test.script.v) :
                test.script.v[j].key \in {"e", "expect", "s", "send"}

ValidDoc(doc) ==
    doc.kind = "seq" /\ \A j \in 1..Len(doc.tests) : ValidTest(doc.tests[j])

\* C19: parse_spec on a valid document returns a suite in which every case
\* expects the exit status its test declares with "return", and 0 when the
\* test declares none; on an invalid document it raises AssertionError and
\* produces no suite.
C19_ReturnParsed ==
    (ps.from = "doc" /\ ps.pc # "doc") =>
        IF ValidDoc(ps.doc)
        THEN /\ ps.out.kind = "ok"
             /\ \A j \in 1..Len(ps.doc.tests) :
                    od_has(ps.out.suite.cases, ps.doc.tests[j].name)
             /\ \A c \in 1..Len(ps.out.suite.cases) :
                    \E j \in 1..Len(ps.doc.tests) :
                        LET test == ps.doc.tests[j]
                        IN  /\ test.name = ps.out.suite.cases[c].name
                            /\ \A m \in (j + 1)..Len(ps.doc.tests) :
                                    ps.doc.tests[m].name # test.name
                            /\ ps.out.suite.cases[c].exits =
                                    IF test.ret.t = "int" THEN test.ret.v ELSE 0
        ELSE /\ ps.out.kind = "AssertionError"
             /\ ps.out.suite = NewSuite

----------------------------------------------------------------------------
(* Properties of the substitution *)

\* the k-th action run_script executes, as the script held it before the run
\* (the expect of end-of-output when it is the appended one)
GivenAction(k) == IF k <= Len(tc0.script) THEN tc0.script[k] ELSE ExpectEOF

\* C20: in calico's run_script, what an action sends or matches is its data
\* with the variable references replaced by their definitions: a literal
\* without references as it is, the reference to v as the value defined for
\* v, and never the unreplaced reference; an action whose data is the
\* end-of-output sentinel matches the sentinel itself.
C20_Substitution ==
    (prog = "calico") =>
        \A k \in 1..Len(fr.log) :
            LET given == GivenAction(k).data
                used == fr.log[k].data
            IN  /\ (given = EOF) => used = EOF
                /\ (given = Template) =>
                        /\ <<"v", used>> \in args.defs.items
                        /\ used # Template
                /\ (given \notin {EOF, Template}) => used = given

\* C20 witness: run_script has returned for the script that sends the
\* reference to v: the value of v was sent, and the appended expect of
\* end-of-output matched the sentinel
C20_Witness ==
    /\ prog = "calico"
    /\ fr.pc = "returned"
    /\ tc0.script = <<Action("send", Template, -1)>>
    /\ fr.sent = <<"a">>
    /\ Len(fr.log) = 2
    /\ fr.log[2].data = EOF
    /\ fr.log[2].outcome = "match"

----------------------------------------------------------------------------
(* Properties of the case across a run *)

\* C21: once calico's TestCase.run has returned, the script of the case is
\* the script it had before the run, and running the case again with the
\* same definitions against the same child returns the same exit status,
\* signal status and errors.
C21_CaseUnchanged ==
    (prog = "calico" /\ result.state = "returned") =>
        /\ tc.script = tc0.script
        /\ LET g == run_script("calico", TestCase_spawned(tc, args.jailed), tc.script,
                                args.defs, args.g_timeout, fr.child)
           IN  /\ g.pc = "returned"
               /\ g.exitstatus = fr.exitstatus
               /\ g.signalstatus = fr.signalstatus
               /\ g.errors = fr.errors

----------------------------------------------------------------------------
(* Properties of the recorder *)

\* the answers to the question that decline to continue
Declines(answer) == answer \notin {"y", "Y", ""}

\* the steps of the cycle Idle -> Recording -> AwaitingOperatorScore ->
\* (Idle | Done); the recorder awaits the operator both at the prompt for the
\* points ("score") and at the question that follows it ("ask")
CycleSteps ==
    {<<"idle", "recording">>, <<"recording", "score">>, <<"score", "ask">>,
     <<"ask", "idle">>, <<"ask", "done">>}

\* the names of the recorded cases, in recording order
RoundNames == <<"case_1", "case_2", "case_3", "case_4">>

\* the rounds begun so far
RoundsBegun == Len(SelectSeq(rec.trace, LAMBDA pc : pc = "recording"))

\* C22: the recorder moves along the cycle Idle -> Recording ->
\* AwaitingOperatorScore -> (Idle | Done), leaving it only when the entry for
\* the points is no integer (the recorder then ends with ValueError, in no
\* state of the cycle); the first step is into a round; a round begins only
\* when every earlier round has got its points and the question after it an
\* answer that continues; an answer that declines ends the recorder; and the
\* suite holds one case per completed round, named case_1, case_2, ... in
\* recording order, at least one when the recorder is done.
C22_RecorderCycle ==
    (rec.pc # "none") =>
        LET t == rec.trace
            n == Len(rec.rounds)
        IN  /\ t[1] = "idle"
            /\ Len(t) > 1 => t[2] = "recording"
            /\ \A i \in 1..(Len(t) - 1) :
                \/ <<t[i], t[i + 1]>> \in CycleSteps
                \/ t[i] = "score" /\ t[i + 1] = "raised" /\ i + 1 = Len(t)
            /\ RoundsBegun <= rec.asked + 1
            /\ RoundsBegun <= n + 1
            /\ rec.asked <= n
            /\ (rec.pc = "idle" /\ Len(t) > 1) =>
                    rec.answer # NoAnswer /\ ~Declines(rec.answer)
            /\ (rec.answer # NoAnswer /\ Declines(rec.answer)) => rec.pc = "done"
            /\ rec.pc = "done" =>
                /\ n >= 1
                /\ rec.asked = n
                /\ rec.answer # NoAnswer /\ Declines(rec.answer)
            /\ Len(rec.calico.cases) = n
            /\ \A k \in 1..n : rec.calico.cases[k].name = RoundNames[k]

\* the recorder is done after two rounds
C22_Witness ==
    /\ rec.pc = "done"
    /\ Len(rec.rounds) = 2
    /\ Len(rec.calico.cases) = 2

\* the number the operator typed
Typed(text) == CASE text = "0" -> 0 [] text = "1" -> 1 [] text = "2" -> 2
                 [] text = "3" -> 3 [] OTHER -> None

\* C23: the case of every completed round has as its script the actions
\* recorded until the child ended followed by one expect of the end of the
\* output, none of the recorded actions being such an expect; its points are
\* the number the operator typed; and, when the child ended by exiting, its
\* expected exit status is the child's exit code.
C23_RoundRecorded ==
    (rec.pc # "none") =>
        \A k \in 1..Len(rec.rounds) :
            LET case == rec.calico.cases[k]
                round == rec.rounds[k]
            IN  /\ case.script = Append(round.recorded, ExpectEOF)
                /\ \A j \in 1..Len(round.recorded) : round.recorded[j] # ExpectEOF
                /\ case.points = Typed(round.points)
                /\ round.end.kind = "exit" => case.exits = round.end.code

\* a round is completed whose child wrote and was written to and exited with
\* code 2, and the operator gave 2 points
C23_Witness ==
    /\ rec.pc \in {"ask", "idle", "done"}
    /\ \E k \in 1..Len(rec.rounds) :
        /\ rec.rounds[k].end = [kind |-> "exit", code |-> 2, sig |-> 0]
        /\ rec.rounds[k].points = "2"
        /\ Len(rec.rounds[k].recorded) >= 2
        /\ rec.calico.cases[k].exits = 2

\* the chunk without its trailing newline
StripNewline(data) ==
    IF data # <<>> /\ data[Len(data)] = "\n" THEN SubSeq(data, 1, Len(data) - 1)
    ELSE data

\* the pattern for one character of a line: a regex metacharacter and the
\* newline get a backslash, a space and a letter stand for themselves
Quoted(c) == CASE c = "." -> "\\." [] c = "*" -> "\\*" [] c = "\\" -> "\\\\"
               [] c = "\n" -> "\\\n" [] OTHER -> c

\* the pattern q, one element per character it stands for, matches text
Matches(q, text) ==
    /\ Len(q) = Len(text)
    /\ \A j \in 1..Len(q) :
        \/ q[j] = "." /\ text[j] # "\n"
        \/ q[j] = text[j] /\ text[j] \notin {".", "*", "\\"}
        \/ q[j] = "\\" \o text[j]

\* the lines of a chunk, each with its newline
LinesOf(data) ==
    LET ends == {j \in 1..Len(data) : data[j] = "\n" \/ j = Len(data)}
        start(j) == IF \E e \in ends : e < j
                    THEN (CHOOSE e \in ends : e < j /\ \A e2 \in ends : e2 < j => e2 <= e) + 1
                    ELSE 1
        nth(k) == CHOOSE e \in ends : Cardinality({e2 \in ends : e2 <= e}) = k
    IN  [k \in 1..Cardinality(ends) |-> SubSeq(data, start(nth(k)), nth(k))]

\* the actions of the chunks read in a round, in the order they were read
RECURSIVE AddedIn(_, _)
AddedIn(made, round) ==
    IF made = <<>> THEN <<>>
    ELSE (IF Head(made).round = round THEN Head(made).added ELSE <<>>)
            \o AddedIn(Tail(made), round)

\* C24: the script of the case being recorded is the actions of the chunks
\* read in this round, in the order they were read; a chunk read from the
\* operator gave exactly one send whose data is the chunk without its
\* trailing newline; a chunk read from the child gave one expect per line
\* whose data is the line with its metacharacters escaped and its spaces as
\* they are, a pattern the line matches; and what was forwarded is what was
\* read.
C24_ChunksRecorded ==
    (rec.pc # "none") =>
        /\ rec.pc = "recording" =>
                rec.current_test_case.script = AddedIn(rec.made, Len(rec.rounds) + 1)
        /\ \A i \in 1..Len(rec.made) :
            LET m == rec.made[i]
                lines == LinesOf(m.data)
            IN  /\ m.forwarded = m.data
                /\ m.fd = 0 =>
                        m.added = <<Action("send", Str(StripNewline(m.data)), -1)>>
                /\ m.fd # 0 =>
                    /\ Len(m.added) = Len(lines)
                    /\ \A j \in 1..Len(lines) :
                        LET q == [c \in 1..Len(lines[j]) |-> Quoted(lines[j][c])]
                        IN  /\ m.added[j] = Action("expect", Str(q), -1)
                            /\ Matches(q, lines[j])

\* C24 for the chunks read from the child only
C24_ChildChunksRecorded ==
    (rec.pc # "none") =>
        \A i \in 1..Len(rec.made) :
            LET m == rec.made[i]
                lines == LinesOf(m.data)
            IN  m.fd # 0 =>
                    /\ m.forwarded = m.data
                    /\ Len(m.added) = Len(lines)
                    /\ \A j \in 1..Len(lines) :
                        LET q == [c \in 1..Len(lines[j]) |-> Quoted(lines[j][c])]
                        IN  /\ m.added[j] = Action("expect", Str(q), -1)
                            /\ Matches(q, lines[j])

----------------------------------------------------------------------------
(* Properties of the report of a run *)

\* C25: when Calico.run has returned, the points of the report are the sum
\* of the points of the entries the report holds, and are no more than the
\* total points of the suite (the declared points drawn are not negative).
C25_ReportPoints ==
    (prog = "calico" /\ sr.pc = "done") =>
        /\ sr.earned_points =
                SumSeq([j \in 1..Len(sr.report) |-> Awarded(sr.report[j])])
        /\ sr.earned_points <= suite.points

\* C25 for the runs in which no name is run more than once
C25_ReportPointsDistinct ==
    (/\ prog = "calico" /\ sr.pc = "done"
     /\ \A i, j \in 1..Len(hist.executed) :
            hist.executed[i].entry.name = hist.executed[j].entry.name => i = j) =>
        /\ sr.earned_points =
                SumSeq([j \in 1..Len(sr.report) |-> Awarded(sr.report[j])])
        /\ sr.earned_points <= suite.points

\* the errors run_script reports
ScriptErrors == {"Timeout exceeded.", "Expected output not received."}

\* C26: the error list TestCase.run returns is empty, or one error of the
\* script, or "Incorrect exit status." alone, or one error of the script
\* followed by "Incorrect exit status.": never two errors of the script, and
\* never the exit-status error before an error of the script.
C26_ErrorListShape ==
    (result.state = "returned") =>
        \/ result.errors = <<>>
        \/ result.errors = <<"Incorrect exit status.">>
        \/ \E e \in ScriptErrors :
            \/ result.errors = <<e>>
            \/ result.errors = <<e, "Incorrect exit status.">>

\* C26 witness: calico's TestCase.run has returned for a child whose output
\* ended before the expected text and whose exit status is not the expected
\* one
C26_Witness ==
    /\ prog = "calico"
    /\ result.state = "returned"
    /\ result.errors = <<"Expected output not received.", "Incorrect exit status.">>

====
